---- MODULE Spec2Model ----
(***************************************************************************)
(* The two upload components of the repository as state machines.          *)
(*                                                                         *)
(*   MultiFileUpload (src/src/components/MultiFileUpload.tsx): the state   *)
(*   `files`, `uploading`, and the promises of the batch that handleUpload *)
(*   awaits.  Spec drives the handlers through the rendered controls       *)
(*   (disabled / hidden controls cannot be clicked); SpecAPI calls the     *)
(*   handlers directly in any state.                                       *)
(*                                                                         *)
(*   FileUploader (src/unnamed/part_000, lines 1-62): the state `file`,    *)
(*   `status`, and the posts in flight.  SpecSingle drives it through its  *)
(*   rendered controls.                                                    *)
(*                                                                         *)
(* Every handler and every callback runs to completion on the UI thread,   *)
(* so each is one atomic action.  A state setter's value is visible to the *)
(* next event, because React re-renders before it handles another event.   *)
(***************************************************************************)
EXTENDS Integers, Sequences, FiniteSets, TLC

VARIABLES
    files,          \* MultiFileUpload: useState<FileWithProgress[]>
    uploading,      \* MultiFileUpload: useState(false)
    uploadPromises, \* MultiFileUpload: the promises handleUpload awaits
    file,           \* FileUploader: useState<File | null>
    status,         \* FileUploader: useState<UploadStatus>
    posts,          \* FileUploader: the axios posts in flight (their payloads)
    statusLog,      \* history: every value status has held, in order
    outcomeLog,     \* history: the outcome of every post that settled, in order
    lastCall,       \* history: the handler called last, with what it was given
                    \* (or the callback that last ran for an entry that is gone)
    bytes,          \* FileItem: file.file.size of the row being rendered
    text            \* FileItem: the size text of that row ("" before it renders)

vars ==
    <<files, uploading, uploadPromises, file, status, posts, statusLog, outcomeLog, lastCall,
      bytes, text>>

multiVars == <<files, uploading, uploadPromises>>

singleVars == <<file, status, posts, statusLog, outcomeLog>>

formatVars == <<bytes, text>>

----------------------------------------------------------------------------
\* Bounds of the model.

\* the collection holds at most MaxFiles entries
MaxFiles == 3

\* one pick of the file dialog returns at most MaxPick files
MaxPick == 2

\* the single uploader starts at most MaxUploads uploads
MaxUploads == 3

\* the sizes rendered have a whole part of at most MaxWhole units (or lie at
\* the edge of a unit)
MaxWhole == 2

----------------------------------------------------------------------------
\* The File objects the browser can hand over.  The input is reset after every
\* pick (inputRef.current.value = ''), so the same file can be picked again.

Files == { [name |-> "a", obj |-> 1], [name |-> "b", obj |-> 2] }

\* useState<File | null>(null); also the undefined of an empty FileList
NoFile == [name |-> "", obj |-> 0]

\* identifiers removeFile can be called with
Ids == { f.name : f \in Files }

\* e.target.files of one change event
FileLists == UNION { [1..n -> Files] : n \in 0..MaxPick }

\* The progress events a request reports (bytes loaded, bytes in total); a
\* total of 0 stands for a total that is 0 or absent (not length-computable).
ProgressEvents ==
    { [loaded |-> 0, total |-> 0],
      [loaded |-> 2, total |-> 3],
      [loaded |-> 2, total |-> 0] }

Mounted == [op |-> "mount", id |-> ""]

\* a handler call: its name and the identifier it was given ("" when none)
Call(name, id) == [op |-> name, id |-> id]

\* no entry of the collection carries the identifier id
NoEntry(id) == \A j \in DOMAIN files : files[j].id # id

\* what a callback of a request with identifier id leaves in lastCall: itself
\* when prevFiles.map finds no entry with that identifier, nothing otherwise
AfterCallback(id) == IF NoEntry(id) THEN Call("staleCallback", id) ELSE lastCall

----------------------------------------------------------------------------
\* MultiFileUpload

\* a promise of the batch that has settled: the async callback has returned
\* (undefined) and its closure over fileWithProgress is released
Settled == [id |-> "", file |-> NoFile, state |-> "settled"]

Uncaught(p) == [p EXCEPT !.state = "rejected"]

\* try { ... } catch (error) { ... }: the error goes no further, the async
\* callback returns and its promise is fulfilled
Caught(p) == Settled

\* Math.round of the non-negative quotient n / d
Round(n, d) == (2 * n + d) \div (2 * d)

\* the progress value of onUploadProgress
Progress(loaded, total) == Round(loaded * 100, IF total = 0 THEN 1 ELSE total)

\* Array.from(e.target.files).map(...)
NewFiles(list) ==
    [i \in 1..Len(list) |->
        [file |-> list[i], progress |-> 0, uploaded |-> FALSE, id |-> list[i].name]]

AppendFilesReplace(fs, new) == new

\* [...files, ...newFiles]
AppendFiles(fs, new) == fs \o new

SetProgressClearsUploaded(prevFiles, id, progress) ==
    [i \in 1..Len(prevFiles) |->
        IF prevFiles[i].id = id
            THEN [prevFiles[i] EXCEPT !.progress = progress, !.uploaded = FALSE]
            ELSE prevFiles[i]]

SetProgressFirstOnly(prevFiles, id, progress) ==
    [i \in 1..Len(prevFiles) |->
        IF prevFiles[i].id = id /\ \A j \in 1..(i - 1) : prevFiles[j].id # id
            THEN [prevFiles[i] EXCEPT !.progress = progress]
            ELSE prevFiles[i]]

SetProgressUpserts(prevFiles, id, progress) ==
    IF \E i \in DOMAIN prevFiles : prevFiles[i].id = id
        THEN [i \in 1..Len(prevFiles) |->
                IF prevFiles[i].id = id
                    THEN [prevFiles[i] EXCEPT !.progress = progress]
                    ELSE prevFiles[i]]
        ELSE Append(prevFiles,
                [file |-> CHOOSE f \in Files : f.name = id,
                 progress |-> progress, uploaded |-> FALSE, id |-> id])

\* prevFiles.map(file => file.id === id ? { ...file, progress } : file)
SetProgress(prevFiles, id, progress) ==
    [i \in 1..Len(prevFiles) |->
        IF prevFiles[i].id = id
            THEN [prevFiles[i] EXCEPT !.progress = progress]
            ELSE prevFiles[i]]

SetUploadedForcesFull(prevFiles, id) ==
    [i \in 1..Len(prevFiles) |->
        IF prevFiles[i].id = id
            THEN [prevFiles[i] EXCEPT !.uploaded = TRUE, !.progress = 100]
            ELSE prevFiles[i]]

\* prevFiles.map(file => file.id === id ? { ...file, uploaded: true } : file)
SetUploaded(prevFiles, id) ==
    [i \in 1..Len(prevFiles) |->
        IF prevFiles[i].id = id
            THEN [prevFiles[i] EXCEPT !.uploaded = TRUE]
            ELSE prevFiles[i]]

CatchErrorResets(prevFiles, id) == SetProgress(prevFiles, id, 0)

\* catch (error) { console.error(error) }: no state setter is called
CatchError(prevFiles, id) == prevFiles

RECURSIVE FilterKeepsMatching(_, _)
FilterKeepsMatching(prevFiles, id) ==
    IF prevFiles = <<>> THEN <<>>
    ELSE IF Head(prevFiles).id = id
        THEN <<Head(prevFiles)>> \o FilterKeepsMatching(Tail(prevFiles), id)
        ELSE FilterKeepsMatching(Tail(prevFiles), id)

RECURSIVE FilterOut(_, _)
\* prevFiles.filter(file => file.id !== id)
FilterOut(prevFiles, id) ==
    IF prevFiles = <<>> THEN <<>>
    ELSE IF Head(prevFiles).id # id
        THEN <<Head(prevFiles)>> \o FilterOut(Tail(prevFiles), id)
        ELSE FilterOut(Tail(prevFiles), id)

UploadGuardIgnoresFlag(fs, up) == Len(fs) = 0

\* if (files.length === 0 || uploading) return
UploadGuard(fs, up) == Len(fs) = 0 \/ up

AnySettled(promises) == \E i \in DOMAIN promises : promises[i].state = "settled"

\* await Promise.all(uploadPromises): every promise of the batch has settled
AllSettled(promises) == \A i \in DOMAIN promises : promises[i].state = "settled"

\* <FileInput disabled={uploading}>
FileInputDisabled == uploading

\* <ActionButtons disabled={files.length === 0 || uploading}>
ActionButtonsDisabled == Len(files) = 0 \/ uploading

RemoveButtonAlwaysShown(up) == TRUE

\* {!uploading && <button onClick={() => onRemove(file.id)}>}
RemoveButtonShown(up) == ~up

UploadPromisesSkipUploaded(fs) ==
    LET todo == SelectSeq(fs, LAMBDA f : ~f.uploaded)
    IN  [i \in 1..Len(todo) |->
            [id |-> todo[i].id, file |-> todo[i].file, state |-> "pending"]]

\* files.map(async (fileWithProgress) => ...): one post per entry, its
\* callbacks closing over the entry's id and carrying the entry's file
UploadPromises(fs) ==
    [i \in 1..Len(fs) |-> [id |-> fs[i].id, file |-> fs[i].file, state |-> "pending"]]

handleFileSelect(list) ==
    /\ Len(files) + Len(list) <= MaxFiles
    /\ IF Len(list) = 0
        THEN files' = files
        ELSE files' = AppendFiles(files, NewFiles(list))
    /\ lastCall' = Call("handleFileSelect", "")
    /\ UNCHANGED <<uploading, uploadPromises, singleVars, formatVars>>

handleUpload ==
    /\ IF UploadGuard(files, uploading)
        THEN UNCHANGED <<files, uploading, uploadPromises>>
        ELSE /\ uploading' = TRUE
             /\ uploadPromises' = UploadPromises(files)
             /\ files' = files
    /\ lastCall' = Call("handleUpload", "")
    /\ UNCHANGED <<singleVars, formatVars>>

\* the onUploadProgress callback of the request of uploadPromises[i]
onUploadProgress(i, ev) ==
    /\ uploadPromises[i].state = "pending"
    /\ files' = SetProgress(files, uploadPromises[i].id, Progress(ev.loaded, ev.total))
    /\ lastCall' = AfterCallback(uploadPromises[i].id)
    /\ UNCHANGED <<uploading, uploadPromises, singleVars, formatVars>>

\* axios.post of uploadPromises[i] resolves: the code after the await runs
postResolved(i) ==
    /\ uploadPromises[i].state = "pending"
    /\ files' = SetUploaded(files, uploadPromises[i].id)
    /\ uploadPromises' = [uploadPromises EXCEPT ![i] = Settled]
    /\ lastCall' = AfterCallback(uploadPromises[i].id)
    /\ UNCHANGED <<uploading, singleVars, formatVars>>

\* axios.post of uploadPromises[i] rejects: the catch block runs
postRejected(i) ==
    /\ uploadPromises[i].state = "pending"
    /\ files' = CatchError(files, uploadPromises[i].id)
    /\ uploadPromises' = [uploadPromises EXCEPT ![i] = Caught(uploadPromises[i])]
    /\ UNCHANGED <<uploading, singleVars, formatVars, lastCall>>

\* Promise.all(uploadPromises) resolves: setUploading(false)
uploadJoin ==
    /\ Len(uploadPromises) > 0
    /\ AllSettled(uploadPromises)
    /\ uploading' = FALSE
    /\ uploadPromises' = <<>>
    /\ UNCHANGED <<files, singleVars, formatVars, lastCall>>

removeFile(id) ==
    /\ files' = FilterOut(files, id)
    /\ lastCall' = Call("removeFile", id)
    /\ UNCHANGED <<uploading, uploadPromises, singleVars, formatVars>>

handleClear ==
    /\ files' = <<>>
    /\ lastCall' = Call("handleClear", "")
    /\ UNCHANGED <<uploading, uploadPromises, singleVars, formatVars>>

\* the callbacks of the requests in flight
Callbacks ==
    \/ \E i \in DOMAIN uploadPromises : \E ev \in ProgressEvents : onUploadProgress(i, ev)
    \/ \E i \in DOMAIN uploadPromises : postResolved(i)
    \/ \E i \in DOMAIN uploadPromises : postRejected(i)
    \/ uploadJoin

\* a request in flight settles, one way or the other
requestSettles == \E i \in DOMAIN uploadPromises : postResolved(i) \/ postRejected(i)

\* the user's actions, as the rendered controls allow them
SelectFiles == ~FileInputDisabled /\ \E list \in FileLists : handleFileSelect(list)

ClickUpload == ~ActionButtonsDisabled /\ handleUpload

ClickClear == ~ActionButtonsDisabled /\ handleClear

ClickRemove ==
    /\ RemoveButtonShown(uploading)
    /\ \E i \in DOMAIN files : removeFile(files[i].id)

\* the handlers called directly, whatever the view shows
CallSelect == \E list \in FileLists : handleFileSelect(list)

CallUpload == handleUpload

CallClear == handleClear

CallRemove == \E id \in Ids : removeFile(id)

----------------------------------------------------------------------------
\* FileUploader

SettleStatusAlwaysSuccess(outcome) == "success"

\* setStatus('success') after the await, setStatus('error') in the catch
SettleStatus(outcome) == IF outcome = "resolved" THEN "success" ELSE "error"

\* setStatus('uploading')
StartStatus == "uploading"

UploadButtonShownWhileUploading(f, st) == f # NoFile

\* {file && status !== 'uploading' && <button onClick={handleFileUpload}>}
UploadButtonShown(f, st) == f # NoFile /\ st # "uploading"

handleFileChangeResets(f) ==
    /\ file' = f
    /\ status' = "idle"
    /\ statusLog' = Append(statusLog, status')
    /\ lastCall' = Call("handleFileChange", f.name)
    /\ UNCHANGED <<posts, outcomeLog, multiVars, formatVars>>

\* e.target.files is a FileList; its [0] is undefined when the list is empty
handleFileChange(f) ==
    /\ file' = f
    /\ lastCall' = Call("handleFileChange", f.name)
    /\ UNCHANGED <<status, posts, statusLog, outcomeLog, multiVars, formatVars>>

handleFileUpload ==
    /\ Len(outcomeLog) + Len(posts) < MaxUploads
    /\ IF file = NoFile
        THEN UNCHANGED <<status, posts, statusLog>>
        ELSE /\ status' = StartStatus
             /\ statusLog' = Append(statusLog, status')
             /\ posts' = Append(posts, file)
    /\ lastCall' = Call("handleFileUpload", file.name)
    /\ UNCHANGED <<file, outcomeLog, multiVars, formatVars>>

\* the post of posts[i] resolves or rejects
postSettled(i, outcome) ==
    /\ status' = SettleStatus(outcome)
    /\ statusLog' = Append(statusLog, status')
    /\ posts' = SubSeq(posts, 1, i - 1) \o SubSeq(posts, i + 1, Len(posts))
    /\ outcomeLog' = Append(outcomeLog, outcome)
    /\ UNCHANGED <<file, multiVars, formatVars, lastCall>>

PickFile == \E f \in Files \cup {NoFile} : handleFileChange(f)

ClickUploadButton == UploadButtonShown(file, status) /\ handleFileUpload

PostSettles == \E i \in DOMAIN posts : \E outcome \in {"resolved", "rejected"} : postSettled(i, outcome)

----------------------------------------------------------------------------
\* formatFileSize

\* const k = 1024
k == 1024

\* const sizes = ['B', 'KB', 'MB', 'GB']
sizes == <<"B", "KB", "MB", "GB">>

RECURSIVE Pow(_, _)
\* Math.pow(b, e)
Pow(b, e) == IF e = 0 THEN 1 ELSE b * Pow(b, e - 1)

RECURSIVE FloorLog(_, _)
\* Math.floor(Math.log(n) / Math.log(b)), n >= 1
FloorLog(n, b) == IF n < b THEN 0 ELSE 1 + FloorLog(n \div b, b)

\* (n / d).toFixed(1): the quotient in tenths, rounded to the nearest tenth
\* with ties upwards; n / d is exact in binary, d being a power of two
ToFixed1(n, d) ==
    LET tenths == 10 * (n \div d) + (10 * (n % d) + d \div 2) \div d
    IN  [whole |-> tenths \div 10, tenth |-> tenths % 10]

ParseFloatKeepsZero(fx) == ToString(fx.whole) \o "." \o ToString(fx.tenth)

\* `${parseFloat(fx)}`: the number read back and printed, without a trailing .0
ParseFloat(fx) ==
    IF fx.tenth = 0
        THEN ToString(fx.whole)
        ELSE ToString(fx.whole) \o "." \o ToString(fx.tenth)

formatFileSize(n) ==
    IF n = 0 THEN "0 B"
    ELSE LET i == FloorLog(n, k)
         IN  ParseFloat(ToFixed1(n, Pow(k, i))) \o " " \o sizes[i + 1]

\* file.file.size of the rows rendered: zero, and for each unit up to MB the
\* sizes of 1..MaxWhole units plus every 64th of a unit, the last byte before
\* the next unit, and three sizes around 1.05 GB
SizeInputs ==
    {0}
    \cup { q * d + (r * d) \div 64 : q \in 1..MaxWhole, r \in 0..63, d \in {1, k, k * k} }
    \cup { d * k - 1 : d \in {1, k, k * k} }
    \cup { k * k * k, k * k * k + 53686272, k * k * k + 53687296 }

\* <span>{formatFileSize(file.file.size)}</span>
renderSize ==
    /\ text = ""
    /\ text' = formatFileSize(bytes)
    /\ UNCHANGED <<bytes, multiVars, singleVars, lastCall>>

----------------------------------------------------------------------------
\* Specifications

Mount ==
    /\ files = <<>>
    /\ uploading = FALSE
    /\ uploadPromises = <<>>
    /\ file = NoFile
    /\ status = "idle"
    /\ posts = <<>>
    /\ statusLog = <<"idle">>
    /\ outcomeLog = <<>>
    /\ lastCall = Mounted

Init == Mount /\ bytes = 0 /\ text = ""

\* MultiFileUpload driven through its rendered controls
Next ==
    \/ SelectFiles
    \/ ClickUpload
    \/ ClickClear
    \/ ClickRemove
    \/ Callbacks

Spec == Init /\ [][Next]_vars

\* Spec, with every request in flight settling in the end (the network layer
\* resolves or rejects each post) and the continuation of the await running
\* once it can (the event loop runs every queued job)
SpecLive == Spec /\ WF_vars(requestSettles) /\ WF_vars(uploadJoin)

\* MultiFileUpload with its handlers called directly
NextAPI ==
    \/ CallSelect
    \/ CallUpload
    \/ CallClear
    \/ CallRemove
    \/ Callbacks

SpecAPI == Init /\ [][NextAPI]_vars

\* FileUploader driven through its rendered controls
NextSingle ==
    \/ PickFile
    \/ ClickUploadButton
    \/ PostSettles

SpecSingle == Init /\ [][NextSingle]_vars

\* formatFileSize applied to the size of a rendered row
InitFormat == Mount /\ bytes \in SizeInputs /\ text = ""

NextFormat == renderSize

SpecFormat == InitFormat /\ [][NextFormat]_vars

----------------------------------------------------------------------------
\* Helpers of the properties

\* the identifiers of a collection, in order
IdSeq(fs) == [i \in 1..Len(fs) |-> fs[i].id]

Pending(i) == uploadPromises[i].state = "pending"

\* the positions of fs whose entry does not carry the identifier id
Kept(fs, id) == { i \in 1..Len(fs) : fs[i].id # id }

\* the m-th smallest position of Kept(fs, id)
KthKept(fs, id, m) ==
    CHOOSE i \in Kept(fs, id) : Cardinality({ j \in Kept(fs, id) : j <= i }) = m

----------------------------------------------------------------------------
\* Properties

\* C1: the uploading flag is true while any request of the batch is in flight,
\* and a step that resets it to false starts from a state where every request
\* dispatched for the batch has settled.
C1_FlagResetAfterAllSettled ==
    /\ []((\E i \in DOMAIN uploadPromises : Pending(i)) => uploading)
    /\ [][(uploading /\ ~uploading') => \A i \in DOMAIN uploadPromises : ~Pending(i)]_vars

\* C1 witness: one request of the batch has settled, another is still in
\* flight, and the flag is still true.
C1_FastSettledSlowPending ==
    /\ uploading
    /\ \E i, j \in DOMAIN uploadPromises : ~Pending(i) /\ Pending(j)

\* C2 (as claimed): a progress or completion callback of the request issued
\* for the entry at position i leaves the progress and the completion flag of
\* every entry at another position unchanged.
C2_CallbackLeavesOtherEntries ==
    [][\A i \in DOMAIN uploadPromises :
        ((\E ev \in ProgressEvents : onUploadProgress(i, ev)) \/ postResolved(i))
            => \A j \in DOMAIN files :
                   j # i => /\ files'[j].progress = files[j].progress
                            /\ files'[j].uploaded = files[j].uploaded]_vars

\* C3: a handleUpload call made with an empty collection or with the flag
\* already true changes neither the collection nor the flag and dispatches no
\* request.
C3_UploadNoOp ==
    [][(handleUpload /\ (Len(files) = 0 \/ uploading))
        => UNCHANGED <<files, uploading, uploadPromises>>]_vars

\* C3 witness: handleUpload is the handler called last, the flag is true and
\* the batch in flight is not the collection's (an entry was added or removed
\* after dispatch), so that last call was made while uploading and dispatched
\* nothing.
C3_CalledWhileUploading ==
    /\ lastCall.op = "handleUpload"
    /\ uploading
    /\ Len(uploadPromises) # Len(files)
    /\ \E i \in DOMAIN uploadPromises : ~Pending(i)

\* C4: every step taken while the uploading flag is true, and the steps that
\* set and reset it, keep the collection's sequence of identifiers.
C4_NoRemovalWhileUploading ==
    [][(uploading \/ uploading') => IdSeq(files') = IdSeq(files)]_vars

\* C4 witness: a batch over two or more entries is in flight.
C4_BatchInFlight ==
    /\ uploading
    /\ Len(files) >= 2
    /\ \E i \in DOMAIN uploadPromises : Pending(i)

\* C5: from a fresh mount the status values are idle, then uploading, then
\* success when the first request resolves and error when it rejects, with no
\* other value in between.
C5_StatusSequence ==
    /\ status = statusLog[Len(statusLog)]
    /\ Len(outcomeLog) = 0 => statusLog \in { <<"idle">>, <<"idle", "uploading">> }
    /\ Len(outcomeLog) >= 1 =>
         SubSeq(statusLog, 1, 3) =
            <<"idle", "uploading", IF outcomeLog[1] = "resolved" THEN "success" ELSE "error">>

\* C5 witness: the first upload's request rejected and nothing followed.
C5_FirstUploadRejected ==
    /\ outcomeLog = <<"rejected">>
    /\ statusLog = <<"idle", "uploading", "error">>

\* C6 (as claimed): the only status transitions are idle to uploading,
\* uploading to success and uploading to error; status never returns to idle.
C6_OnlyThreeTransitions ==
    [][/\ status' # status =>
            <<status, status'>> \in { <<"idle", "uploading">>,
                                      <<"uploading", "success">>,
                                      <<"uploading", "error">> }
       /\ status # "idle" => status' # "idle"]_vars

\* C6 (amended): the only status transitions are idle to uploading, uploading
\* to success, uploading to error, and success or error to uploading when a
\* further upload is started; status never returns to idle.
C6_TransitionsWithReupload ==
    [][/\ status' # status =>
            <<status, status'>> \in { <<"idle", "uploading">>,
                                      <<"uploading", "success">>,
                                      <<"uploading", "error">>,
                                      <<"success", "uploading">>,
                                      <<"error", "uploading">> }
       /\ status # "idle" => status' # "idle"]_vars

\* C6 witness: a second upload was started after the first one failed, and it
\* succeeded.
C6_ReuploadAfterError ==
    /\ Len(statusLog) >= 5
    /\ SubSeq(statusLog, 3, 5) = <<"error", "uploading", "success">>

\* C7 (as claimed): every entry's progress is an integer between 0 and 100.
C7_ProgressInRange ==
    \A i \in DOMAIN files : files[i].progress \in 0..100

\* C8: handleFileSelect(list) keeps every existing entry, unchanged and in
\* place, and appends one entry per file of the list, in the list's order, with
\* progress 0 and the completion flag false.
C8_SelectAppends ==
    [][\A list \in FileLists :
        handleFileSelect(list) =>
            /\ Len(files') = Len(files) + Len(list)
            /\ \A i \in 1..Len(files) : files'[i] = files[i]
            /\ \A m \in 1..Len(list) :
                  /\ files'[Len(files) + m].file = list[m]
                  /\ files'[Len(files) + m].progress = 0
                  /\ files'[Len(files) + m].uploaded = FALSE]_vars

\* C8 witness: "b" was selected after "a" had been uploaded; the collection is
\* [a, b], with a's entry as the upload left it.
C8_SelectedAThenB ==
    /\ lastCall.op = "handleFileSelect"
    /\ IdSeq(files) = <<"a", "b">>
    /\ files[1].uploaded /\ files[1].progress = 67
    /\ ~files[2].uploaded /\ files[2].progress = 0

\* C9: removeFile(id) leaves exactly the entries whose identifier is not id,
\* each unchanged and in the same relative order; when no entry carries id the
\* collection is unchanged.
C9_RemoveKeepsOthersInOrder ==
    [][\A id \in Ids :
        removeFile(id) =>
            /\ Len(files') = Cardinality(Kept(files, id))
            /\ \A m \in 1..Len(files') : files'[m] = files[KthKept(files, id, m)]
            /\ (Kept(files, id) = DOMAIN files => files' = files)]_vars

\* C9 witness: "b" was removed from between two entries that differ; the two
\* remain, in their order.
C9_RemovedFromTheMiddle ==
    /\ lastCall = Call("removeFile", "b")
    /\ Len(files) = 2
    /\ files[1].uploaded /\ files[1].progress = 67
    /\ ~files[2].uploaded /\ files[2].progress = 0

\* C10: the catch block of a rejected request changes no entry (neither its
\* own nor a sibling) and leaves the uploading flag as it was.
C10_RejectionChangesNothing ==
    [][\A i \in DOMAIN uploadPromises :
        postRejected(i) => (files' = files /\ uploading' = uploading)]_vars

\* C10 witness: the request of an entry has rejected (it has settled and the
\* entry is not completed); the entry keeps the progress last reported, a
\* sibling's request is still in flight and the flag is still true.
C10_RejectedKeepsProgress ==
    /\ uploading
    /\ Len(files) = Len(uploadPromises)
    /\ \E i, j \in DOMAIN uploadPromises :
          /\ ~Pending(i) /\ ~files[i].uploaded /\ files[i].progress = 67
          /\ Pending(j)

\* C11: when the request of the entry at position i resolves, that entry's
\* completion flag becomes true and every entry keeps the progress it had: the
\* progress is not forced to 100.
C11_ResolveKeepsProgress ==
    [][\A i \in DOMAIN uploadPromises :
        postResolved(i) =>
            /\ Len(files') = Len(files)
            /\ files'[i].uploaded
            /\ \A j \in DOMAIN files : files'[j].progress = files[j].progress]_vars

\* C11 witness: an entry is completed with progress 0 and another with the
\* progress 67 last reported for it; no batch is in flight.
C11_CompletedBelowFull ==
    /\ ~uploading
    /\ Len(files) = 2
    /\ files[1].uploaded /\ files[1].progress = 0
    /\ files[2].uploaded /\ files[2].progress = 67

\* C12 (as claimed): a removeFile call made while the uploading flag is true
\* leaves the collection unchanged.
C12_RemoveRejectedWhileUploading ==
    [][\A id \in Ids : (removeFile(id) /\ uploading) => files' = files]_vars

\* C13: a progress or completion callback of a request whose identifier no
\* entry of the collection carries (the entry was removed or cleared after
\* dispatch) leaves the collection as it is: nothing is changed and no entry
\* is created.
C13_StaleCallbackTolerated ==
    [][\A i \in DOMAIN uploadPromises :
        (/\ Pending(i)
         /\ NoEntry(uploadPromises[i].id)
         /\ ((\E ev \in ProgressEvents : onUploadProgress(i, ev)) \/ postResolved(i)))
            => files' = files]_vars

\* C13 witness: a callback has just run for the request of "a", whose entry
\* was removed during the batch; the collection still holds "b" alone.
C13_CallbackAfterRemoval ==
    /\ lastCall = Call("staleCallback", "a")
    /\ uploading
    /\ IdSeq(files) = <<"b">>

\* C14: handleFileChange(f) makes f the selection and leaves status (and the
\* posts in flight) as they are, whatever the status is.
C14_SelectKeepsStatus ==
    [][\A f \in Files \cup {NoFile} :
        handleFileChange(f) =>
            /\ file' = f
            /\ status' = status
            /\ statusLog' = statusLog]_vars

\* C14 witness: "b" was selected after the first upload had been started
\* (while it was in flight or after it failed); the status that upload
\* produced stands and the selection is the new file.
C14_SelectedAfterError ==
    /\ lastCall = Call("handleFileChange", "b")
    /\ file.name = "b"
    /\ status = "error"
    /\ statusLog = <<"idle", "uploading", "error">>

\* the text the claim gives for n bytes below 1024^3: the value in the largest
\* unit not exceeding n, as whole part, point and one decimal, then the unit
OneDecimalText(n) ==
    LET i == CHOOSE e \in 0..2 : Pow(1024, e) <= n /\ n < Pow(1024, e + 1)
        d == Pow(1024, i)
        q == n \div d
        r == n % d
        \* the tenth nearest to r / d, the upper one at a tie (10 carries over)
        f == CHOOSE t \in 0..10 : (2 * t - 1) * d <= 20 * r /\ 20 * r < (2 * t + 1) * d
        tenths == 10 * q + f
    IN  [whole |-> tenths \div 10, tenth |-> tenths % 10, unit |-> <<"B", "KB", "MB">>[i + 1]]

\* C15 (as claimed): zero bytes render as "0 B" and every positive count as
\* the value with exactly one decimal place and the unit; 1536 gives "1.5 KB"
\* and 1048576 gives "1.0 MB".
C15_ExactlyOneDecimal ==
    text # "" =>
        /\ bytes = 0 => text = "0 B"
        /\ bytes = 1536 => text = "1.5 KB"
        /\ bytes = 1048576 => text = "1.0 MB"
        /\ (0 < bytes /\ bytes < 1073741824) =>
              LET x == OneDecimalText(bytes)
              IN  text = ToString(x.whole) \o "." \o ToString(x.tenth) \o " " \o x.unit

\* C15 (amended): as claimed, except that a decimal of 0 is not printed:
\* 1048576 gives "1 MB".
C15_OneDecimalUnlessZero ==
    text # "" =>
        /\ bytes = 0 => text = "0 B"
        /\ bytes = 1536 => text = "1.5 KB"
        /\ bytes = 1048576 => text = "1 MB"
        /\ bytes = 1073741824 => text = "1 GB"
        /\ bytes = 1073741824 + 53687296 => text = "1.1 GB"
        /\ (0 < bytes /\ bytes < 1073741824) =>
              LET x == OneDecimalText(bytes)
              IN  text = IF x.tenth = 0
                            THEN ToString(x.whole) \o " " \o x.unit
                            ELSE ToString(x.whole) \o "." \o ToString(x.tenth)
                                    \o " " \o x.unit

\* C15 witness: a size of exactly one MB has been rendered, without decimal.
C15_RenderedOneMB ==
    /\ bytes = 1048576
    /\ text = "1 MB"

\* C16: whenever the uploading flag is true it is false again later, given
\* that every request settles: whatever the mix of resolutions and rejections,
\* the join completes and resets the flag.
C16_FlagEventuallyReset == uploading ~> ~uploading

\* C16 witness: a batch of two or more requests has been dispatched, every one
\* of them rejected (no entry is completed), and the flag is false again.
C16_ResetAfterAllRejected ==
    /\ lastCall.op = "handleUpload"
    /\ ~uploading
    /\ Len(files) >= 2
    /\ \A j \in DOMAIN files : ~files[j].uploaded

\* C17: handleFileSelect gives every new entry its file's name as identifier
\* and drops none, so entries can share an identifier; a progress callback of
\* a request sets the reported progress on every entry carrying the request's
\* identifier, a completion callback completes every such entry, and
\* removeFile(id) leaves no entry carrying id.
C17_SharedIdentifier ==
    [][/\ \A list \in FileLists :
            handleFileSelect(list) =>
                /\ Len(files') = Len(files) + Len(list)
                /\ \A n \in 1..Len(list) : files'[Len(files) + n].id = list[n].name
       /\ \A i \in DOMAIN uploadPromises : \A ev \in ProgressEvents :
            onUploadProgress(i, ev) =>
                \A j \in DOMAIN files :
                    files[j].id = uploadPromises[i].id
                        => files'[j].progress = Progress(ev.loaded, ev.total)
       /\ \A i \in DOMAIN uploadPromises :
            postResolved(i) =>
                \A j \in DOMAIN files :
                    files[j].id = uploadPromises[i].id => files'[j].uploaded
       /\ \A id \in Ids :
            removeFile(id) => \A j \in DOMAIN files' : files'[j].id # id]_vars

\* C17 witness: two entries carry the identifier "a"; the request of the
\* first has resolved, the request of the second is still in flight, and both
\* entries are completed, with the same progress.
C17_BothEntriesCompleted ==
    /\ uploading
    /\ IdSeq(files) = <<"a", "a">>
    /\ Len(uploadPromises) = 2
    /\ ~Pending(1) /\ Pending(2)
    /\ files[1].uploaded /\ files[2].uploaded
    /\ files[1].progress = 67 /\ files[2].progress = 67

\* C18: a handleUpload call made with a non-empty collection and the flag
\* false dispatches one request per entry, in order, each for its entry's
\* identifier and file, whether or not the entry is already completed, and
\* changes no entry.
C18_OneRequestPerEntry ==
    [][(handleUpload /\ Len(files) > 0 /\ ~uploading) =>
        /\ uploading'
        /\ Len(uploadPromises') = Len(files)
        /\ \A i \in DOMAIN files :
              /\ uploadPromises'[i].state = "pending"
              /\ uploadPromises'[i].id = files[i].id
              /\ uploadPromises'[i].file = files[i].file
        /\ files' = files]_vars

\* C18 witness: a batch has just been dispatched over an entry completed by an
\* earlier batch and a new one; both have a request in flight and the
\* completed entry keeps its flag and progress.
C18_CompletedEntryUploadedAgain ==
    /\ lastCall.op = "handleUpload"
    /\ uploading
    /\ Len(files) = 2 /\ Len(uploadPromises) = 2
    /\ Pending(1) /\ Pending(2)
    /\ files[1].uploaded /\ files[1].progress = 67
    /\ ~files[2].uploaded /\ files[2].progress = 0
    /\ files[1].id # files[2].id

\* C19: a step that removes no entry (every step but an effective removeFile
\* or handleClear) keeps every entry in its place and keeps every completion
\* flag that is true.
C19_CompletionMonotone ==
    [][(~handleClear /\ \A id \in Ids : ~removeFile(id)) =>
        /\ Len(files') >= Len(files)
        /\ \A j \in DOMAIN files :
              /\ files'[j].id = files[j].id
              /\ files[j].uploaded => files'[j].uploaded]_vars

\* C19 witness: the only entry was completed by an earlier batch; a further
\* batch is in flight for it, has reported progress beyond what the entry had,
\* and the entry is still completed.
C19_CompletedDuringLaterBatch ==
    /\ uploading
    /\ Len(files) = 1 /\ Len(uploadPromises) = 1
    /\ Pending(1)
    /\ files[1].uploaded
    /\ files[1].progress = 200

\* C20: at most one post is in flight, and one is exactly while status is
\* uploading; handleFileUpload posts the file selected at the call; a
\* handleFileChange changes neither the posts in flight nor status; and the
\* status a post produces depends on its outcome alone.
C20_RequestKeepsItsFile ==
    /\ [](Len(posts) <= 1 /\ (status = "uploading" <=> Len(posts) = 1))
    /\ [][/\ (handleFileUpload /\ file # NoFile) => posts' = Append(posts, file)
          /\ \A f \in Files \cup {NoFile} :
                handleFileChange(f) => (posts' = posts /\ status' = status)
          /\ \A i \in DOMAIN posts :
                /\ postSettled(i, "resolved") => status' = "success"
                /\ postSettled(i, "rejected") => status' = "error"]_vars

\* C20 witness: "a" is being uploaded and "b" has been selected meanwhile: the
\* post in flight still carries "a" and status is still uploading.
C20_SelectedDuringUpload ==
    /\ lastCall = Call("handleFileChange", "b")
    /\ status = "uploading"
    /\ Len(posts) = 1
    /\ posts[1].name = "a"
    /\ file.name = "b"

====
